---- MODULE Spec2Model ----
(***************************************************************************)
(* Model of the amenity search engine of near-me (src/server.py):          *)
(* overpass_query builds one Overpass request, sends it once, normalises   *)
(* the returned elements, computes great-circle distances, sorts stably    *)
(* by distance and truncates to MAX_RESULTS.                               *)
(*                                                                         *)
(* Python values are represented as follows.                               *)
(*   - an optional value (dict.get without default) is the empty sequence  *)
(*     None or the one-element sequence Some(v);                           *)
(*   - a tag bag is a function from the keys it holds to strings;          *)
(*   - coordinates are whole degrees on a grid on which sin and cos are    *)
(*     rational, so the haversine term `a` is exact (in sixteenths);       *)
(*   - distance_km is the haversine distance rounded to whole km.          *)
(*   - radius_km is a fixed-point number of tenths of a metre.             *)
(* Inputs of search are taken inside the data model: finite coordinates    *)
(* and a finite radius.  The backend's answer is arbitrary.                *)
(***************************************************************************)
EXTENDS Integers, Sequences, FiniteSets, TLC

VARIABLES MAX_RESULTS, args, reply, pc, query, sent, elements, idx, results,
          returned, error

vars == <<MAX_RESULTS, args, reply, pc, query, sent, elements, idx, results,
          returned, error>>

(***************************************************************************)
(* Bounds of the model.                                                    *)
(***************************************************************************)
MaxElems == 3
MaxBadElems == 2
MaxConfigured == 2
NumCalls == 2

(***************************************************************************)
(* Python values.                                                          *)
(***************************************************************************)
None == <<>>

Some(v) == <<v>>

\* Truth value of an optional string: None and "" are falsy.
Truthy(o) == o # None /\ o[1] # ""

\* Python `a or b`: a when a is truthy, else b.
Or(a, b) == IF Truthy(a) THEN a ELSE b

\* tags.get(k)
Get(tags, k) == IF k \in DOMAIN tags THEN Some(tags[k]) ELSE None

\* tags.get(k, default)
GetDefault(tags, k, default) == IF k \in DOMAIN tags THEN tags[k] ELSE default

\* int(x) on the quotient n/d, d > 0: truncation toward zero.
IntTrunc(n, d) == IF n >= 0 THEN n \div d ELSE -((-n) \div d)

\* Python seq[:n]
Slice(seq, n) ==
  IF n >= 0
    THEN SubSeq(seq, 1, IF n < Len(seq) THEN n ELSE Len(seq))
    ELSE SubSeq(seq, 1, IF Len(seq) + n > 0 THEN Len(seq) + n ELSE 0)

(***************************************************************************)
(* Distance Calculator.                                                    *)
(***************************************************************************)
\* 2*cos(d degrees) for d a multiple of 60 or of 90.
Cos2(d) ==
  LET m == d % 360 IN
    CASE m = 0 -> 2
      [] m = 60 -> 1
      [] m = 90 -> 0
      [] m = 120 -> -1
      [] m = 180 -> -2
      [] m = 240 -> -1
      [] m = 270 -> 0
      [] m = 300 -> 1

\* 4*sin^2(d/2) = 2 - 2*cos(d)
SinSqHalf4(d) == 2 - Cos2(d)

\* R * 2 * atan2(sqrt(a), sqrt(1 - a)) for a = k/16, R = 6371.0, rounded to km.
ArcKm == <<0, 3220, 4605, 5706, 6672, 7559, 8398, 9209, 10008, 10806, 11617,
           12457, 13343, 14309, 15411, 16795, 20015>>

haversine_km(lat1, lon1, lat2, lon2) ==
  LET dphi == lat2 - lat1
      dlambda == lon2 - lon1
      a16 == 4 * SinSqHalf4(dphi)
             + Cos2(lat1) * Cos2(lat2) * SinSqHalf4(dlambda)
  IN ArcKm[a16 + 1]

(***************************************************************************)
(* Normalization of one raw element.                                       *)
(***************************************************************************)
AddrKeysSwapped ==
  <<"addr:housenumber", "addr:street", "addr:city",
    "addr:postcode", "addr:state", "addr:country">>

AddrKeys ==
  <<"addr:street", "addr:housenumber", "addr:city",
    "addr:postcode", "addr:state", "addr:country">>

\* [tags.get(k) for k in keys if tags.get(k)]
RECURSIVE AddrParts(_, _)
AddrParts(tags, keys) ==
  IF keys = <<>> THEN <<>>
  ELSE LET v == Get(tags, Head(keys)) IN
         (IF Truthy(v) THEN <<v[1]>> ELSE <<>>) \o AddrParts(tags, Tail(keys))

\* sep.join(parts)
RECURSIVE Join(_, _)
Join(sep, parts) ==
  IF parts = <<>> THEN ""
  ELSE IF Len(parts) = 1 THEN parts[1]
  ELSE parts[1] \o sep \o Join(sep, Tail(parts))

AddressOf(tags) ==
  LET joined == Join(", ", AddrParts(tags, AddrKeys)) IN
    IF joined # "" THEN joined
    ELSE GetDefault(tags, "addr:full", "Not available")

NameOfOperatorFirst(tags) ==
  Or(Or(Get(tags, "operator"), Get(tags, "name")), Some("Unknown"))[1]

NameOf(tags) ==
  Or(Or(Get(tags, "name"), Get(tags, "operator")), Some("Unknown"))[1]

PhoneOf(tags) ==
  Or(Or(Get(tags, "phone"), Get(tags, "contact:phone")), Get(tags, "telephone"))

ContactOf(tags) == Or(PhoneOf(tags), Some("Not available"))[1]

\* el.get("tags", {})
EmptyBag == [k \in {} |-> ""]

TagsOf(el) == IF el.tags = "absent" THEN EmptyBag ELSE el.bag

\* The effective coordinate <<lat_e, lon_e>> of an element, each optional.
EffectiveCoord(el) ==
  IF el.type = Some("node")
    THEN <<el.lat, el.lon>>
    ELSE IF el.center = "absent" THEN <<None, None>> ELSE <<el.clat, el.clon>>

CoordMissingFalsy(lat_e, lon_e) ==
  \/ lat_e = None \/ lon_e = None
  \/ lat_e = Some(0) \/ lon_e = Some(0)

\* lat_e is None or lon_e is None
CoordMissing(lat_e, lon_e) == lat_e = None \/ lon_e = None

\* The exception the loop body raises on element el, "none" if it raises none.
RaisesNothing(el) == "none"

Raises(el) ==
  IF el.json # "object" THEN "AttributeError"
  ELSE IF el.tags = "null" THEN "AttributeError"
  ELSE IF el.type = None THEN "KeyError"
  ELSE IF el.type # Some("node") /\ el.center = "null" THEN "AttributeError"
  ELSE "none"

Result(lat, lon, el) ==
  LET tags == TagsOf(el)
      c == EffectiveCoord(el)
  IN [name |-> NameOf(tags),
      address |-> AddressOf(tags),
      contact |-> ContactOf(tags),
      lat |-> c[1][1],
      lon |-> c[2][1],
      distance_km |-> haversine_km(lat, lon, c[1][1], c[2][1])]

(***************************************************************************)
(* Ranking.                                                                *)
(***************************************************************************)
\* Insert r after every entry whose key is not greater than r's.
RECURSIVE InsertStable(_, _)
InsertStable(seq, r) ==
  IF seq = <<>> THEN <<r>>
  ELSE IF Head(seq).distance_km <= r.distance_km
    THEN <<Head(seq)>> \o InsertStable(Tail(seq), r)
    ELSE <<r>> \o seq

RECURSIVE SortFrom(_, _)
SortFrom(acc, seq) ==
  IF seq = <<>> THEN acc ELSE SortFrom(InsertStable(acc, Head(seq)), Tail(seq))

Unsorted(seq) == seq

\* sorted(seq, key=lambda r: r["distance_km"])
Sorted(seq) == SortFrom(<<>>, seq)

(***************************************************************************)
(* Inputs: tool arguments, raw elements and backend replies.               *)
(***************************************************************************)
Tools == {"find_nearest_hospital", "find_nearest_police",
          "find_nearest_fire_station", "find_nearest_public_office"}

\* The amenity tag each wrapper passes to overpass_query.
AmenityOf(tool) ==
  CASE tool = "find_nearest_hospital" -> "hospital"
    [] tool = "find_nearest_police" -> "police"
    [] tool = "find_nearest_fire_station" -> "fire_station"
    [] tool = "find_nearest_public_office" -> "townhall"

\* DEFAULT_RADIUS_KM = 5.0, in tenths of a metre.
DefaultRadiusDm == 50000

Args(tools, origins, radii) ==
  {[tool |-> t, latitude |-> o[1], longitude |-> o[2], radius_dm |-> r] :
     t \in tools, o \in origins, r \in radii}

Element(json, type, lat, lon, center, clat, clon, tags, bag) ==
  [json |-> json, type |-> type, lat |-> lat, lon |-> lon, center |-> center,
   clat |-> clat, clon |-> clon, tags |-> tags, bag |-> bag]

Node(lat, lon, tags, bag) ==
  Element("object", Some("node"), lat, lon, "absent", None, None, tags, bag)

Area(type, center, clat, clon, tags, bag) ==
  Element("object", Some(type), None, None, center, clat, clon, tags, bag)

Bag1(k, v) == [x \in {k} |-> v]

\* Elements every one of which the loop body handles without raising.
GoodPool ==
  { Node(Some(0), Some(0), "object", Bag1("name", "City Hospital")),
    Node(Some(0), Some(90), "absent", EmptyBag),
    Area("way", "object", Some(0), Some(-90), "object", Bag1("operator", "Red Cross")),
    Area("relation", "object", Some(60), Some(180), "object", Bag1("phone", "112")),
    Area("way", "absent", None, None, "object", Bag1("name", "No Centre")),
    Node(Some(60), None, "object", Bag1("name", "Half Node")),
    Area("way", "object", None, Some(90), "object", EmptyBag),
    Element("object", Some("node"), Some(60), Some(0), "null", None, None,
            "object", Bag1("name", "Null Centre Node")) }

\* Items that do not have the shape of an element.
BadPool ==
  { Element("scalar", None, None, None, "absent", None, None, "absent", EmptyBag),
    Element("object", None, Some(0), Some(90), "absent", None, None, "object", EmptyBag),
    Element("object", Some("node"), Some(0), Some(90), "absent", None, None,
            "null", EmptyBag),
    Area("way", "null", None, None, "object", Bag1("name", "Null Centre Way")) }

\* All sequences over S of length at most n.
RECURSIVE SeqsUpTo(_, _)
SeqsUpTo(S, n) ==
  IF n = 0 THEN {<<>>}
  ELSE LET shorter == SeqsUpTo(S, n - 1) IN
         shorter \cup {Append(s, e) : s \in shorter, e \in S}

Http(status, body, elems) ==
  [kind |-> "http", status |-> status, body |-> body, elems |-> elems]

TransportErrors ==
  {[kind |-> k, status |-> 0, body |-> "none", elems |-> <<>>] :
     k \in {"connection_error", "timeout"}}

\* Answers with a status raise_for_status rejects.
ErrorStatusReplies ==
  {Http(st, b, <<>>) : st \in {404, 503}, b \in {"not_json", "list"}}

\* Answers with status 200 whose body is not an element list.
BrokenBodyReplies ==
  {Http(200, b, <<>>) : b \in {"not_json", "not_object", "no_elements",
                               "elements_null"}}

ListReplies(status, lists) == {Http(status, "list", l) : l \in lists}

\* Answers with a redirection status the HTTP client does not follow (304 has
\* no Location header), which raise_for_status lets through.
RedirectReplies ==
  ListReplies(304, SeqsUpTo(GoodPool, 1)) \cup {Http(304, "not_json", <<>>)}

Replies ==
  TransportErrors \cup ErrorStatusReplies \cup BrokenBodyReplies
    \cup ListReplies(200, SeqsUpTo(GoodPool, MaxElems))
    \cup ListReplies(200, SeqsUpTo(GoodPool \cup BadPool, MaxBadElems))
    \cup RedirectReplies

MaxResultsValues == {-1} \cup (0..MaxConfigured)

Origins == {<<0, 0>>, <<60, 90>>}

TypeOK ==
  /\ MAX_RESULTS \in Int
  /\ \A i \in DOMAIN pc :
       /\ pc[i] \in {"idle", "start", "sent", "loop", "done", "failed"}
       /\ sent[i] \in Nat
       /\ idx[i] \in Nat

(***************************************************************************)
(* Initial states.                                                         *)
(***************************************************************************)
InitWith(calls, maxes, argset, replyset) ==
  /\ MAX_RESULTS \in maxes
  /\ args \in [calls -> argset]
  /\ reply \in [calls -> replyset]
  /\ pc = [i \in calls |-> "idle"]
  /\ query = [i \in calls |-> None]
  /\ sent = [i \in calls |-> 0]
  /\ elements = [i \in calls |-> <<>>]
  /\ idx = [i \in calls |-> 0]
  /\ results = [i \in calls |-> <<>>]
  /\ returned = [i \in calls |-> None]
  /\ error = [i \in calls |-> "none"]

Init ==
  InitWith({1}, MaxResultsValues,
           Args(Tools, Origins, {DefaultRadiusDm, 19}), Replies)

(***************************************************************************)
(* Operations.                                                             *)
(***************************************************************************)
\* The list `results` is a local of the invocation.
SharedSlot(i) == 1

ResultsSlot(i) == i

\* find_nearest_* calls overpass_query, which builds the query text.
FindNearest(i) ==
  /\ pc[i] = "idle"
  /\ pc' = [pc EXCEPT ![i] = "start"]
  /\ query' = [query EXCEPT ![i] =
       Some([amenity |-> AmenityOf(args[i].tool),
             radius_m |-> IntTrunc(args[i].radius_dm, 10),
             lat |-> args[i].latitude,
             lon |-> args[i].longitude])]
  /\ UNCHANGED <<MAX_RESULTS, args, reply, sent, elements, idx, results,
                 returned, error>>

CanSendOrRetry(i) == pc[i] \in {"start", "failed"}

\* requests.post is reached once, straight after the query is built.
CanSend(i) == pc[i] = "start"

Post(i) ==
  /\ CanSend(i)
  /\ query[i] # None
  /\ pc' = [pc EXCEPT ![i] = "sent"]
  /\ sent' = [sent EXCEPT ![i] = @ + 1]
  /\ UNCHANGED <<MAX_RESULTS, args, reply, query, elements, idx, results,
                 returned, error>>

Fail(i, exc) ==
  /\ pc' = [pc EXCEPT ![i] = "failed"]
  /\ error' = [error EXCEPT ![i] = exc]
  /\ UNCHANGED <<MAX_RESULTS, args, reply, query, sent, elements, idx,
                 results, returned>>

\* requests.post raises: connection refused, DNS failure, timeout=30.
TransportFailure(i) ==
  /\ pc[i] = "sent"
  /\ reply[i].kind # "http"
  /\ Fail(i, IF reply[i].kind = "timeout" THEN "Timeout" ELSE "ConnectionError")

\* Response.raise_for_status raises HTTPError for 4xx and 5xx.
StatusRaises(status) == 400 <= status /\ status < 600

RaiseForStatus(i) ==
  /\ pc[i] = "sent"
  /\ reply[i].kind = "http"
  /\ StatusRaises(reply[i].status)
  /\ Fail(i, "HTTPError")

\* What res.json().get("elements", []) followed by iteration raises.
BodyRaises(body) ==
  CASE body = "not_json" -> "JSONDecodeError"
    [] body = "not_object" -> "AttributeError"
    [] body = "elements_null" -> "TypeError"
    [] OTHER -> "none"

BodyFailure(i) ==
  /\ pc[i] = "sent"
  /\ reply[i].kind = "http"
  /\ ~StatusRaises(reply[i].status)
  /\ BodyRaises(reply[i].body) # "none"
  /\ Fail(i, BodyRaises(reply[i].body))

\* results = []; the element list is taken from the body, [] by default.
BeginLoop(i) ==
  /\ pc[i] = "sent"
  /\ reply[i].kind = "http"
  /\ ~StatusRaises(reply[i].status)
  /\ BodyRaises(reply[i].body) = "none"
  /\ elements' = [elements EXCEPT ![i] =
       IF reply[i].body = "list" THEN reply[i].elems ELSE <<>>]
  /\ results' = [results EXCEPT ![ResultsSlot(i)] = <<>>]
  /\ idx' = [idx EXCEPT ![i] = 1]
  /\ pc' = [pc EXCEPT ![i] = "loop"]
  /\ UNCHANGED <<MAX_RESULTS, args, reply, query, sent, returned, error>>

InLoop(i) == pc[i] = "loop" /\ idx[i] <= Len(elements[i])

\* The loop body raises on the current element.
LoopRaise(i) ==
  /\ InLoop(i)
  /\ Raises(elements[i][idx[i]]) # "none"
  /\ Fail(i, Raises(elements[i][idx[i]]))

\* if lat_e is None or lon_e is None: continue
LoopSkip(i) ==
  /\ InLoop(i)
  /\ LET el == elements[i][idx[i]]
         c == EffectiveCoord(el)
     IN /\ Raises(el) = "none"
        /\ CoordMissing(c[1], c[2])
  /\ idx' = [idx EXCEPT ![i] = @ + 1]
  /\ UNCHANGED <<MAX_RESULTS, args, reply, pc, query, sent, elements,
                 results, returned, error>>

\* results.append({...})
LoopAppend(i) ==
  /\ InLoop(i)
  /\ LET el == elements[i][idx[i]]
         c == EffectiveCoord(el)
     IN /\ Raises(el) = "none"
        /\ ~CoordMissing(c[1], c[2])
        /\ results' = [results EXCEPT ![ResultsSlot(i)] =
             Append(@, Result(args[i].latitude, args[i].longitude, el))]
  /\ idx' = [idx EXCEPT ![i] = @ + 1]
  /\ UNCHANGED <<MAX_RESULTS, args, reply, pc, query, sent, elements,
                 returned, error>>

\* return sorted(results, key=...)[:MAX_RESULTS]
Return(i) ==
  /\ pc[i] = "loop"
  /\ idx[i] > Len(elements[i])
  /\ returned' = [returned EXCEPT ![i] =
       Some(Slice(Sorted(results[ResultsSlot(i)]), MAX_RESULTS))]
  /\ pc' = [pc EXCEPT ![i] = "done"]
  /\ UNCHANGED <<MAX_RESULTS, args, reply, query, sent, elements, idx,
                 results, error>>

Next ==
  \E i \in DOMAIN pc :
    \/ FindNearest(i)
    \/ Post(i)
    \/ TransportFailure(i)
    \/ RaiseForStatus(i)
    \/ BodyFailure(i)
    \/ BeginLoop(i)
    \/ LoopRaise(i)
    \/ LoopSkip(i)
    \/ LoopAppend(i)
    \/ Return(i)

Spec == Init /\ [][Next]_vars

(***************************************************************************)
(* Normalization inputs: one located node carrying every combination of    *)
(* absent, empty and non-empty values of the tags the code reads.          *)
(***************************************************************************)
TagValue(k) ==
  CASE k = "addr:street" -> "Main St"
    [] k = "addr:housenumber" -> "12"
    [] k = "addr:city" -> "Pune"
    [] k = "addr:postcode" -> "411001"
    [] k = "addr:state" -> "MH"
    [] k = "addr:country" -> "IN"
    [] k = "addr:full" -> "12 Main St, Pune 411001"
    [] k = "name" -> "City Hospital"
    [] k = "operator" -> "Red Cross"
    [] k = "phone" -> "112"
    [] k = "contact:phone" -> "+91 20 555"
    [] k = "telephone" -> "020 555"

\* Every bag over a subset of keys, each held key empty or non-empty.
BagsOver(keys) ==
  UNION {{[k \in D |-> IF k \in E THEN "" ELSE TagValue(k)] : E \in SUBSET D} :
           D \in SUBSET keys}

AddrTagKeys == {"addr:street", "addr:housenumber", "addr:city", "addr:postcode",
                "addr:state", "addr:country", "addr:full"}

NameTagKeys == {"name", "operator", "phone", "contact:phone", "telephone"}

TagBags == BagsOver(AddrTagKeys) \cup BagsOver(NameTagKeys)

NormReplies ==
  TransportErrors \cup ErrorStatusReplies \cup BrokenBodyReplies
    \cup ListReplies(200, {<<e>> : e \in BadPool \cup GoodPool})
    \cup ListReplies(200, {<<Node(Some(0), Some(90), "object", b)>> : b \in TagBags})

InitNorm ==
  InitWith({1}, MaxResultsValues,
           Args({"find_nearest_hospital"}, {<<0, 0>>}, {DefaultRadiusDm}),
           NormReplies)

SpecNorm == InitNorm /\ [][Next]_vars

(***************************************************************************)
(* Concurrent invocations.                                                 *)
(***************************************************************************)
ConcReplies ==
  { [kind |-> "timeout", status |-> 0, body |-> "none", elems |-> <<>>],
    Http(200, "list",
         <<Node(Some(0), Some(90), "absent", EmptyBag),
           Area("way", "object", Some(0), Some(-90), "object",
                Bag1("operator", "Red Cross"))>>),
    Http(200, "list",
         <<Area("relation", "object", Some(60), Some(180), "object",
                Bag1("phone", "112")),
           Area("way", "absent", None, None, "object", Bag1("name", "No Centre")),
           Node(Some(0), Some(0), "object", Bag1("name", "City Hospital"))>>),
    Http(200, "list",
         <<Node(Some(60), Some(0), "absent", EmptyBag),
           Area("way", "null", None, None, "object",
                Bag1("name", "Null Centre Way"))>>) }

InitConc ==
  InitWith(1..NumCalls, {1, 2},
           Args({"find_nearest_hospital", "find_nearest_police"}, {<<0, 0>>},
                {DefaultRadiusDm}),
           ConcReplies)

SpecConc == InitConc /\ [][Next]_vars

(***************************************************************************)
(* Vocabulary of the properties, stated from the response and the final    *)
(* outcome, not from the steps of the loop.                                *)
(***************************************************************************)
Calls == DOMAIN pc

Out(i) == returned[i][1]

Ok200(i) == reply[i].kind = "http" /\ reply[i].status = 200

\* The element's effective coordinate has both lat and lon.
Resolved(el) ==
  \/ el.type = Some("node") /\ el.lat # None /\ el.lon # None
  \/ el.type # Some("node") /\ el.center = "object"
       /\ el.clat # None /\ el.clon # None

CoordOf(el) ==
  IF el.type = Some("node") THEN <<el.lat[1], el.lon[1]>>
  ELSE <<el.clat[1], el.clon[1]>>

\* An element of the shape the wire contract describes.
WellFormed(el) ==
  /\ el.json = "object"
  /\ el.type \in {Some("node"), Some("way"), Some("relation")}
  /\ el.center \in {"absent", "object"}
  /\ el.tags \in {"absent", "object"}

WellFormedList(i) ==
  /\ Ok200(i)
  /\ reply[i].body = "list"
  /\ \A k \in 1..Len(reply[i].elems) : WellFormed(reply[i].elems[k])

Coords(rs) == [k \in 1..Len(rs) |-> <<rs[k].lat, rs[k].lon>>]

ResolvedCoords(els) ==
  LET kept == SelectSeq(els, Resolved) IN
    [k \in 1..Len(kept) |-> CoordOf(kept[k])]

\* Position of entry k of s in the stable ascending order by distance_km.
Rank(s, k) ==
  Cardinality({m \in 1..Len(s) :
                 \/ s[m].distance_km < s[k].distance_km
                 \/ s[m].distance_km = s[k].distance_km /\ m <= k})

StableSorted(s) ==
  [j \in 1..Len(s) |-> s[CHOOSE k \in 1..Len(s) : Rank(s, k) = j]]

\* The first n entries of s: the entries at positions 1..n that s has.
FirstN(s, n) == [j \in 1..(IF n < Len(s) THEN n ELSE Len(s)) |-> s[j]]

(***************************************************************************)
(* C1  Truncation: whatever the response and whatever integer MAX_RESULTS  *)
(* is configured, a returned sequence has at most MAX_RESULTS entries.     *)
(* Fails: MAX_RESULTS = -1 is admitted by int(os.getenv(...)) and          *)
(* results[:-1] is all but the last entry.                                 *)
(***************************************************************************)
C1_Truncation ==
  \A i \in Calls : returned[i] # None => Len(Out(i)) <= MAX_RESULTS

(***************************************************************************)
(* C2  Ranking: in every returned sequence distance_km is non-decreasing   *)
(* by index.                                                               *)
(***************************************************************************)
C2_Ranking ==
  \A i \in Calls :
    returned[i] # None =>
      \A j \in 1..(Len(Out(i)) - 1) :
        Out(i)[j].distance_km <= Out(i)[j + 1].distance_km

\* A return of two entries that the response listed farthest first.
C2_Witness ==
  \E i \in Calls :
    /\ returned[i] # None
    /\ Len(Out(i)) >= 2
    /\ Out(i)[1].distance_km < Out(i)[2].distance_km
    /\ Len(results[i]) >= 2
    /\ results[i][1].distance_km > results[i][2].distance_km

(***************************************************************************)
(* C3  Coordinate resolution: on a response of well-formed elements the    *)
(* search never fails; the records collected are exactly the elements      *)
(* whose effective coordinate has both lat and lon, in response order;     *)
(* every returned record is one of them, and when they fit in a            *)
(* non-negative MAX_RESULTS all of them are returned.                      *)
(***************************************************************************)
C3_CoordinateResolution ==
  \A i \in Calls :
    WellFormedList(i) =>
      /\ pc[i] # "failed"
      /\ pc[i] \in {"loop", "done"} =>
           Coords(results[i])
             = ResolvedCoords(SubSeq(elements[i], 1, idx[i] - 1))
      /\ pc[i] = "done" =>
           LET kept == ResolvedCoords(reply[i].elems) IN
             /\ \A j \in 1..Len(Out(i)) :
                  \E k \in 1..Len(kept) :
                    kept[k] = <<Out(i)[j].lat, Out(i)[j].lon>>
             /\ (0 <= MAX_RESULTS /\ Len(kept) <= MAX_RESULTS) =>
                  Len(Out(i)) = Len(kept)

\* A way without center was dropped and the two located elements returned,
\* one of them at latitude 0 and longitude 0.
C3_Witness ==
  \E i \in Calls :
    /\ WellFormedList(i)
    /\ pc[i] = "done"
    /\ Len(reply[i].elems) = 3
    /\ \E k \in 1..3 :
         /\ reply[i].elems[k].type = Some("way")
         /\ reply[i].elems[k].center = "absent"
    /\ Len(Out(i)) = 2
    /\ \E j \in 1..2 : Out(i)[j].lat = 0 /\ Out(i)[j].lon = 0

(***************************************************************************)
(* C4  Malformed response is fatal.                                        *)
(***************************************************************************)
\* The body does not match: a record with an `elements` field holding a
\* sequence of records, each with a type, optional lat/lon, optional
\* center {lat, lon} and a tags mapping.
Malformed(r) ==
  \/ r.body \in {"not_json", "not_object", "no_elements", "elements_null"}
  \/ r.body = "list" /\ \E k \in 1..Len(r.elems) :
       LET el == r.elems[k] IN
         \/ el.json # "object"
         \/ el.type = None
         \/ el.center = "null"
         \/ el.tags = "null"

\* C4 as stated: a status-200 answer with a malformed body never yields a
\* returned sequence.
C4_Original ==
  \A i \in Calls : (Ok200(i) /\ Malformed(reply[i])) => returned[i] = None

\* The malformed bodies the code does not tolerate.
Fatal(r) ==
  \/ r.body \in {"not_json", "not_object", "elements_null"}
  \/ r.body = "list" /\ \E k \in 1..Len(r.elems) :
       LET el == r.elems[k] IN
         \/ el.json # "object"
         \/ el.type = None
         \/ el.tags = "null"
         \/ el.type # Some("node") /\ el.center = "null"

\* C4 amended: a status-200 answer whose body is not JSON, is not an object,
\* has a null `elements`, or lists an item that is not a record, has no type,
\* has null tags or is a way/relation with a null center, never reaches the
\* return statement and returns nothing, its only end being the failure; a
\* body without `elements` is an empty response, and a null center on a node
\* is ignored: both end in a return.
C4_MalformedFatal ==
  \A i \in Calls :
    Ok200(i) =>
      /\ Fatal(reply[i]) =>
           /\ returned[i] = None
           /\ pc[i] # "done"
           /\ ~(pc[i] = "loop" /\ idx[i] > Len(elements[i]))
      /\ (Malformed(reply[i]) /\ ~Fatal(reply[i])) => pc[i] # "failed"
      /\ (reply[i].body = "no_elements" /\ pc[i] = "done") =>
           returned[i] = Some(<<>>)

\* A search failed on a bad item after it had collected a record.
C4_Witness ==
  \E i \in Calls :
    /\ Ok200(i)
    /\ Fatal(reply[i])
    /\ pc[i] = "failed"
    /\ Len(results[i]) = 1
    /\ returned[i] = None

(***************************************************************************)
(* C5  Backend failure yields no results: when the call fails at transport *)
(* level or the status is not a success status (2xx), nothing is returned. *)
(* Fails: raise_for_status raises for 4xx and 5xx only, so a 304 answer    *)
(* with an element list is processed and returned.                         *)
(***************************************************************************)
C5_BackendFailure ==
  \A i \in Calls :
    (reply[i].kind # "http" \/ reply[i].status \notin 200..299) =>
      (returned[i] = None /\ pc[i] # "done")

(***************************************************************************)
(* C6  No retry: an invocation has sent no request before the query is     *)
(* posted and exactly one from then on, whether it is waiting, looping,    *)
(* returned or failed.                                                     *)
(***************************************************************************)
C6_NoRetry ==
  \A i \in Calls :
    /\ sent[i] <= 1
    /\ pc[i] \in {"idle", "start"} => sent[i] = 0
    /\ pc[i] \in {"sent", "loop", "done", "failed"} => sent[i] = 1

\* A search that timed out, having sent its one request.
C6_Witness ==
  \E i \in Calls : pc[i] = "failed" /\ error[i] = "Timeout" /\ sent[i] = 1

BagOf(el) == IF el.tags = "object" THEN el.bag ELSE EmptyBag

Present(tags, k) == k \in DOMAIN tags

NonEmpty(tags, k) == k \in DOMAIN tags /\ tags[k] # ""

\* street, house number, city, postcode, state, country
AddressOrder ==
  [j \in 1..6 |->
     CASE j = 1 -> "addr:street"
       [] j = 2 -> "addr:housenumber"
       [] j = 3 -> "addr:city"
       [] j = 4 -> "addr:postcode"
       [] j = 5 -> "addr:state"
       [] j = 6 -> "addr:country"]

\* The components with index in `use` and at most j, joined with ", ".
RECURSIVE JoinedUpTo(_, _, _)
JoinedUpTo(tags, use, j) ==
  IF j = 0 THEN ""
  ELSE IF j \notin use THEN JoinedUpTo(tags, use, j - 1)
  ELSE IF \E m \in use : m < j
    THEN JoinedUpTo(tags, use, j - 1) \o ", " \o tags[AddressOrder[j]]
    ELSE tags[AddressOrder[j]]

AddressFrom(tags, use) ==
  IF use # {} THEN JoinedUpTo(tags, use, 6)
  ELSE IF Present(tags, "addr:full") THEN tags["addr:full"]
  ELSE "Not available"

\* The address by the components that are present.
AddressByPresence(tags) ==
  AddressFrom(tags, {j \in 1..6 : Present(tags, AddressOrder[j])})

\* The address by the components that are present and not empty.
AddressByNonEmpty(tags) ==
  AddressFrom(tags, {j \in 1..6 : NonEmpty(tags, AddressOrder[j])})

FirstOf(tags, keys, Has(_, _), default) ==
  IF \E j \in 1..Len(keys) : Has(tags, keys[j])
    THEN tags[keys[CHOOSE j \in 1..Len(keys) :
                     /\ Has(tags, keys[j])
                     /\ \A m \in 1..(j - 1) : ~Has(tags, keys[m])]]
    ELSE default

\* The records collected so far, paired with the elements they come from.
Kept(i) == SelectSeq(SubSeq(elements[i], 1, idx[i] - 1), Resolved)

Collecting(i) == WellFormedList(i) /\ pc[i] \in {"loop", "done"}

(***************************************************************************)
(* C8  Address derivation.                                                 *)
(***************************************************************************)
\* C8 as stated: the address of every collected record is the present
\* components joined with ", " in the fixed order; with none of the six
\* present it is addr:full when present, else "Not available".
C8_Original ==
  \A i \in Calls :
    Collecting(i) =>
      /\ Len(results[i]) = Len(Kept(i))
      /\ \A k \in 1..Len(results[i]) :
           results[i][k].address = AddressByPresence(BagOf(Kept(i)[k]))

\* C8 amended: the address of every collected record is the non-empty
\* components (a tag holding the empty string counts as absent) joined with
\* ", " in the order street, house number, city, postcode, state, country;
\* with no non-empty component it is the addr:full tag when that tag is
\* present (whatever it holds), else "Not available".
C8_Address ==
  \A i \in Calls :
    Collecting(i) =>
      /\ Len(results[i]) = Len(Kept(i))
      /\ \A k \in 1..Len(results[i]) :
           results[i][k].address = AddressByNonEmpty(BagOf(Kept(i)[k]))

\* A record whose element holds all six components, the street empty.
C8_Witness ==
  \E i \in Calls :
    /\ Collecting(i)
    /\ Len(results[i]) = 1
    /\ \A j \in 1..6 : Present(BagOf(Kept(i)[1]), AddressOrder[j])
    /\ BagOf(Kept(i)[1])["addr:street"] = ""
    /\ results[i][1].address = "12, Pune, 411001, MH, IN"

(***************************************************************************)
(* C9  Name and contact fallback.                                          *)
(***************************************************************************)
\* C9 as stated: name is the first present of name, operator, else
\* "Unknown"; contact the first present of phone, contact:phone, telephone,
\* else "Not available".
C9_Original ==
  \A i \in Calls :
    Collecting(i) =>
      /\ Len(results[i]) = Len(Kept(i))
      /\ \A k \in 1..Len(results[i]) :
           LET tags == BagOf(Kept(i)[k]) IN
             /\ results[i][k].name
                  = FirstOf(tags, <<"name", "operator">>, Present, "Unknown")
             /\ results[i][k].contact
                  = FirstOf(tags, <<"phone", "contact:phone", "telephone">>,
                            Present, "Not available")

\* C9 amended: name is the first non-empty of the tags name, operator, else
\* "Unknown"; contact the first non-empty of phone, contact:phone, telephone,
\* else "Not available"; a tag holding the empty string counts as absent, and
\* so does every tag of an element without a tags field.
C9_NameContact ==
  \A i \in Calls :
    Collecting(i) =>
      /\ Len(results[i]) = Len(Kept(i))
      /\ \A k \in 1..Len(results[i]) :
           LET tags == BagOf(Kept(i)[k]) IN
             /\ results[i][k].name
                  = FirstOf(tags, <<"name", "operator">>, NonEmpty, "Unknown")
             /\ results[i][k].contact
                  = FirstOf(tags, <<"phone", "contact:phone", "telephone">>,
                            NonEmpty, "Not available")

\* A record whose element holds both name and operator and, of the phone
\* tags, only the last two.
C9_Witness ==
  \E i \in Calls :
    /\ Collecting(i)
    /\ Len(results[i]) = 1
    /\ DOMAIN BagOf(Kept(i)[1]) = {"name", "operator", "contact:phone", "telephone"}
    /\ results[i][1].name = "City Hospital"
    /\ results[i][1].contact = "+91 20 555"

(***************************************************************************)
(* C10  Concurrent invocations are independent: whatever the interleaving, *)
(* an invocation that returned has returned what its own arguments and its *)
(* own response determine, and an invocation fails exactly when its own    *)
(* response makes it fail.                                                 *)
(***************************************************************************)
AloneFails(r) ==
  \/ r.kind # "http"
  \/ r.status \in 400..599
  \/ Fatal(r)

AloneResult(a, r) ==
  LET els == IF r.body = "list" THEN r.elems ELSE <<>>
      kept == SelectSeq(els, Resolved)
      recs == [k \in 1..Len(kept) |->
                 Result(a.latitude, a.longitude, kept[k])]
  IN FirstN(StableSorted(recs), MAX_RESULTS)

\* C10: under every interleaving, a returned invocation has returned the
\* result of running alone on its own arguments and response, and a failed
\* one is one that fails alone; a failure leaves the others untouched.
C10_Independent ==
  \A i \in Calls :
    /\ pc[i] = "done" =>
         /\ ~AloneFails(reply[i])
         /\ returned[i] = Some(AloneResult(args[i], reply[i]))
    /\ pc[i] = "failed" =>
         /\ AloneFails(reply[i])
         /\ returned[i] = None
         /\ error[i] # "none"

\* One invocation has returned two records while another is inside its loop
\* with one record collected, and neither has the other's records.
C10_Witness ==
  \E i, j \in Calls :
    /\ i # j
    /\ pc[i] = "done"
    /\ Len(Out(i)) = 2
    /\ pc[j] = "loop"
    /\ idx[j] = 2
    /\ Len(results[j]) = 1
    /\ reply[i] # reply[j]

====
